---- MODULE Spec2Model ----
(***************************************************************************)
(* Push-notification pipeline of presently-backend:                        *)
(*   sendExpoNotifications (Batch Dispatcher), ticketCache (Ticket Store), *)
(*   handleExpoReceipts (Receipt Reconciler), and the one-shot timer that  *)
(*   connects them.  JavaScript runs every task to completion, so each     *)
(*   action below is one task of the event loop: the synchronous part of a *)
(*   call, or the continuation after one awaited promise settles.          *)
(* Further down: getApproachingBirthdays (Eligibility Resolver) over the   *)
(*   collections it aggregates, and the pre-save hook of the User model.   *)
(***************************************************************************)
EXTENDS Integers, Sequences, FiniteSets

(* ------------------------------ bounds --------------------------------- *)
\* number of calls made from outside in one run (sendExpoNotifications and
\* direct handleExpoReceipts calls together)
MaxTasks == 2
\* length of the list handed to one sendExpoNotifications call
MaxList == 2
\* number of push messages in flight in one run: those built by
\* sendExpoNotifications calls plus those whose receipt identifiers the
\* Ticket Store holds
MaxMessages == 3
\* number of clock advances in one run
MaxAdvances == 2
\* number of tickets in a Ticket Store entry that exists before the run
MaxStored == 2
\* provider batch sizes (expo-server-sdk: 100 messages, 300 receipt ids),
\* scaled down so that a short list spans several chunks
PushChunkLimit == 1
ReceiptChunkLimit == 1

(* ------------------------- program constants --------------------------- *)
\* setTimeout(..., 60 * 1000)
ReconcileDelay == 60 * 1000

\* JavaScript null (item.token: string | null)
Null == "null"

(* ------------------------------ helpers -------------------------------- *)
RECURSIVE toString(_)
\* Number.prototype.toString(): the decimal digits of a non-negative integer
toString(n) ==
    IF n < 10 THEN <<n>> ELSE toString(n \div 10) \o <<n % 10>>

RECURSIVE Flatten(_)
\* tickets.push(...ticketChunk) over several chunks: concatenation in order
Flatten(ss) ==
    IF ss = <<>> THEN <<>> ELSE Head(ss) \o Flatten(Tail(ss))

RECURSIVE ChunkBy(_, _)
\* expo.chunkPushNotifications / expo.chunkPushNotificationReceiptIds for
\* single-recipient messages: consecutive runs of at most `limit` elements
ChunkBy(s, limit) ==
    IF s = <<>> THEN <<>>
    ELSE IF Len(s) <= limit THEN <<s>>
    ELSE <<SubSeq(s, 1, limit)>> \o ChunkBy(SubSeq(s, limit + 1, Len(s)), limit)

\* variant: the whole message list is handed over as one chunk
chunkPushNotificationsWhole(messages) == <<messages>>

chunkPushNotifications(messages) == ChunkBy(messages, PushChunkLimit)

chunkPushNotificationReceiptIds(receiptIds) == ChunkBy(receiptIds, ReceiptChunkLimit)

\* sequences over S of length at most n
SeqUpTo(S, n) == UNION {[1..k -> S] : k \in 0..n}

(* ------------------------------- JSON ---------------------------------- *)
\* JSON text is a sequence of tokens
Tok(t) == [t |-> t]
ObjTok(v) == [t |-> "object", v |-> v]

RECURSIVE JoinObjects(_)
JoinObjects(vs) ==
    IF vs = <<>> THEN <<>>
    ELSE IF Len(vs) = 1 THEN <<ObjTok(vs[1])>>
    ELSE <<ObjTok(vs[1]), Tok(",")>> \o JoinObjects(Tail(vs))

\* JSON.stringify of an array of objects
JSONstringify(vs) == <<Tok("[")>> \o JoinObjects(vs) \o <<Tok("]")>>

RECURSIVE ParseItems(_)
\* the elements between the brackets: object (, object)*
ParseItems(ts) ==
    IF ts = <<>> THEN [ok |-> TRUE, items |-> <<>>]
    ELSE IF ts[1].t # "object" THEN [ok |-> FALSE, items |-> <<>>]
    ELSE IF Len(ts) = 1 THEN [ok |-> TRUE, items |-> <<ts[1].v>>]
    ELSE IF ts[2].t # "," \/ Len(ts) = 2 THEN [ok |-> FALSE, items |-> <<>>]
    ELSE LET rest == ParseItems(SubSeq(ts, 3, Len(ts)))
         IN  [ok |-> rest.ok, items |-> <<ts[1].v>> \o rest.items]

\* JSON.parse(x): x is what ticketCache.get returned; undefined is first
\* coerced to the text "undefined", which is not JSON (SyntaxError).
\* Result: [threw], and when it did not throw the parsed value's kind
\* ("array" | "null") and, for an array, its items.
JSONparse(got) ==
    LET text == IF got.found THEN got.value ELSE <<Tok("undefined")>>
        fail == [threw |-> TRUE, kind |-> "none", items |-> <<>>]
    IN  IF text = <<Tok("null")>>
        THEN [threw |-> FALSE, kind |-> "null", items |-> <<>>]
        ELSE IF Len(text) < 2 \/ text[1].t # "[" \/ text[Len(text)].t # "]"
        THEN fail
        ELSE LET r == ParseItems(SubSeq(text, 2, Len(text) - 1))
             IN  IF r.ok THEN [threw |-> FALSE, kind |-> "array", items |-> r.items]
                 ELSE fail

(* --------------------------- Ticket Store ------------------------------ *)
\* ticketCache.set(key, value)
CacheSet(cache, key, value) ==
    [k \in DOMAIN cache \cup {key} |-> IF k = key THEN value ELSE cache[k]]

\* ticketCache.get(key): string | undefined
CacheGet(cache, key) ==
    IF key \in DOMAIN cache THEN [found |-> TRUE, value |-> cache[key]]
    ELSE [found |-> FALSE, value |-> <<>>]

(* ------------------------------ inputs --------------------------------- *)
\* IApproachingBirthday tuples handed to the Dispatcher
Items ==
    { [userId |-> "u1", email |-> "u1@x", token |-> "tok1", friendId |-> "f1",
       friendName |-> "Ann", hoursUntil |-> 10,
       emailNotifications |-> FALSE, pushNotifications |-> TRUE],
      [userId |-> "u3", email |-> "u3@x", token |-> Null, friendId |-> "f3",
       friendName |-> "Cyd", hoursUntil |-> 0,
       emailNotifications |-> TRUE, pushNotifications |-> TRUE],
      [userId |-> "u4", email |-> "u4@x", token |-> "tok4", friendId |-> "f4",
       friendName |-> "Dee", hoursUntil |-> 5,
       emailNotifications |-> TRUE, pushNotifications |-> FALSE] }

Lists == SeqUpTo(Items, MaxList)

\* !!item.token: null and the empty string are falsy
Truthy(token) == token # Null /\ token # ""

\* variant: the filter tests the pushNotifications flag only
PushListAnyToken(list) ==
    SelectSeq(list, LAMBDA item : item.pushNotifications)

\* list.filter(item => !!item.pushNotifications && !!item.token)
PushList(list) ==
    SelectSeq(list, LAMBDA item : item.pushNotifications /\ Truthy(item.token))

\* `${item.friendName}'s birthday is ${item.hoursUntil} hours away!`
Body(item) ==
    <<item.friendName, "'s birthday is ", toString(item.hoursUntil), " hours away!">>

\* one provider message per surviving tuple, in input order
Messages(list) ==
    LET pushList == PushList(list)
    IN  [i \in 1..Len(pushList) |->
            [to |-> pushList[i].token, sound |-> "default", body |-> Body(pushList[i])]]

(* ------------------------ provider (external) -------------------------- *)
\* A ticket the gateway returns for the message at position i of call d:
\* accepted (it carries a receipt identifier, here the pair <<d, i>>) or
\* rejected at submission (error ticket, no receipt identifier).
OkTicket(d, i) == [status |-> "ok", id |-> <<d, i>>]
ErrorTicket(msg) == [status |-> "error", message |-> msg.to]

\* the receipt outcomes the gateway can report for one receipt identifier
ReceiptKinds == {"ok", "error", "errorWithCode"}
(* ------------------------------- state --------------------------------- *)
VARIABLES
    now,          \* the clock read by Date.now() and by the timer queue (ms)
    advances,     \* number of clock advances so far
    ticketCache,  \* Ticket Store: key -> serialized tickets
    calls,        \* one record per sendExpoNotifications call
    timers,       \* timers[d]: the setTimeout made by call d
    recs,         \* one record per handleExpoReceipts run
    epoch,        \* wall-clock minute (since 1970-01-01T00:00Z) of process start
    db,           \* the persisted collections (MongoDB)
    run,          \* the getApproachingBirthdays call
    saves         \* one record per User document save()

\* the state outside the push pipeline
dataVars == <<epoch, db, run, saves>>

vars == <<now, advances, ticketCache, calls, timers, recs, epoch, db, run, saves>>

\* no document in any collection
EmptyDb ==
    [users |-> <<>>, userprofiles |-> <<>>, friends |-> <<>>,
     notifications |-> <<>>, deviceinfos |-> <<>>]

\* getApproachingBirthdays has not been called
NoRun == [pc |-> "idle"]

\* nothing persisted, no resolver call, no save
NoData ==
    /\ epoch = 0
    /\ db = EmptyDb
    /\ run = NoRun
    /\ saves = <<>>

\* the process has just started: nothing stored, nothing scheduled
Init ==
    /\ now = 0
    /\ advances = 0
    /\ ticketCache = <<>>
    /\ calls = <<>>
    /\ timers = <<>>
    /\ recs = <<>>
    /\ NoData

(* ---------------------------- Dispatcher ------------------------------- *)
\* The async arrow function of lines 189-203 at the head of its for loop,
\* about to take chunk k: it calls expo.sendPushNotificationsAsync(chunk)
\* and suspends on the await, or leaves the loop when no chunk is left.
SubmitLoop(c, k) ==
    IF k <= Len(c.chunks)
    THEN [c EXCEPT !.pc = "awaiting", !.submissions = @ \o <<k>>]
    ELSE [c EXCEPT !.pc = "done"]

\* number of calls made from outside so far
TasksStarted ==
    Len(calls) + Cardinality({i \in 1..Len(recs) : recs[i].timer = 0})

\* number of push messages so far: built by the calls, or awaiting a receipt
\* in the Ticket Store
MessagesBuilt ==
    LET keys == DOMAIN ticketCache
        stored(k) == Len(SelectSeq(JSONparse(CacheGet(ticketCache, k)).items,
                                   LAMBDA t : "id" \in DOMAIN t))
        RECURSIVE Sum(_)
        Sum(ks) == IF ks = {} THEN 0
                   ELSE LET k == CHOOSE x \in ks : TRUE
                        IN  stored(k) + Sum(ks \ {k})
    IN  Len(Flatten([d \in 1..Len(calls) |-> calls[d].messages])) + Sum(keys)

\* sendExpoNotifications(list): the whole synchronous body.  The async
\* arrow function is called but not awaited, so it runs up to its first
\* await and the body goes on with the tickets collected so far.
sendExpoNotifications(list) ==
    /\ TasksStarted < MaxTasks
    /\ MessagesBuilt + Len(Messages(list)) <= MaxMessages
    /\ LET messages == Messages(list)
           chunks == chunkPushNotifications(messages)
           tickets == <<>>
           started == SubmitLoop([messages |-> messages, chunks |-> chunks,
                                  tickets |-> tickets, pc |-> "start",
                                  promise |-> "fulfilled",
                                  submissions |-> <<>>, outcomes |-> <<>>,
                                  identifier |-> <<>>, written |-> <<>>,
                                  log |-> <<>>], 1)
           identifier == toString(now)
           value == JSONstringify(tickets)
       IN  /\ ticketCache' = CacheSet(ticketCache, identifier, value)
           /\ calls' = Append(calls, [started EXCEPT !.identifier = identifier,
                                                     !.written = value])
           /\ timers' = Append(timers, [identifier |-> identifier,
                                        scheduledAt |-> now,
                                        due |-> now + ReconcileDelay,
                                        state |-> "pending"])
    /\ UNCHANGED <<now, advances, recs, dataVars>>

\* variant: the catch block rethrows, the async arrow function rejects
SubmitCatchRethrow(c, k) ==
    [c EXCEPT !.log = Append(@, "error:submit"), !.pc = "rejected"]

\* variant: the try/catch encloses the for loop, a failure ends the loop
SubmitCatchBreak(c, k) ==
    [c EXCEPT !.log = Append(@, "error:submit"), !.pc = "done"]

\* catch (error) { console.error(error); } of lines 199-201: the failure of
\* chunk k is logged and the loop goes on with the next chunk
SubmitCatch(c, k) ==
    SubmitLoop([c EXCEPT !.log = Append(@, "error:submit")], k + 1)

\* the tickets the gateway returns for chunk k of call d; accepted(j) tells
\* whether the j-th message of the chunk was accepted
TicketChunk(d, k, accepted) ==
    LET chunk == calls[d].chunks[k]
        base == (k - 1) * PushChunkLimit
    IN  [j \in 1..Len(chunk) |->
            IF accepted[j] THEN OkTicket(d, base + j) ELSE ErrorTicket(chunk[j])]

\* `await expo.sendPushNotificationsAsync(chunk)` resolves (lines 192-194)
SubmitResolved(d) ==
    /\ d \in 1..Len(calls)
    /\ calls[d].pc = "awaiting"
    /\ LET c == calls[d]
           k == c.submissions[Len(c.submissions)]
       IN  \E accepted \in [1..Len(c.chunks[k]) -> BOOLEAN] :
              LET ticketChunk == TicketChunk(d, k, accepted)
                  pushed == [c EXCEPT !.tickets = @ \o ticketChunk,
                                      !.outcomes = Append(@, [ok |-> TRUE, tickets |-> ticketChunk]),
                                      !.log = Append(@, "log:ticketChunk")]
              IN  calls' = [calls EXCEPT ![d] = SubmitLoop(pushed, k + 1)]
    /\ UNCHANGED <<now, advances, ticketCache, timers, recs, dataVars>>

\* `await expo.sendPushNotificationsAsync(chunk)` rejects (lines 199-201)
SubmitRejected(d) ==
    /\ d \in 1..Len(calls)
    /\ calls[d].pc = "awaiting"
    /\ LET c == calls[d]
           k == c.submissions[Len(c.submissions)]
           failed == [c EXCEPT !.outcomes = Append(@, [ok |-> FALSE, tickets |-> <<>>])]
       IN  calls' = [calls EXCEPT ![d] = SubmitCatch(failed, k)]
    /\ UNCHANGED <<now, advances, ticketCache, timers, recs, dataVars>>

(* ------------------------------- clock --------------------------------- *)
\* time passes between two tasks of the event loop
ClockStep == ReconcileDelay \div 2

Advance ==
    /\ advances < MaxAdvances
    /\ now' = now + ClockStep
    /\ advances' = advances + 1
    /\ UNCHANGED <<ticketCache, calls, timers, recs, dataVars>>
(* ---------------------------- Reconciler ------------------------------- *)
\* if (ticket.id): the ticket carries a receipt identifier
HasId(ticket) == "id" \in DOMAIN ticket

\* variant: receiptIds.unshift(ticket.id) instead of push
ReceiptIdsUnshift(tickets) ==
    LET withId == SelectSeq(tickets, HasId)
    IN  [i \in 1..Len(withId) |-> withId[Len(withId) + 1 - i].id]

\* lines 216-223: the receipt identifiers of the tickets that carry one
ReceiptIds(tickets) ==
    LET withId == SelectSeq(tickets, HasId)
    IN  [i \in 1..Len(withId) |-> withId[i].id]

\* head of the for loop of lines 228-257, about to take chunk k: call
\* expo.getPushNotificationReceiptsAsync(chunk) and suspend, or finish
PollLoop(r, k) ==
    IF k <= Len(r.chunks)
    THEN [r EXCEPT !.pc = "awaiting", !.polls = @ \o <<k>>]
    ELSE [r EXCEPT !.pc = "done", !.promise = "fulfilled"]

\* variant: the outer catch block rethrows
OuterCatchRethrow(r) ==
    [r EXCEPT !.pc = "done", !.promise = "rejected",
              !.log = Append(@, "error:outer")]

\* catch (error) { console.error(error); } of lines 258-260
OuterCatch(r) ==
    [r EXCEPT !.pc = "done", !.promise = "fulfilled",
              !.log = Append(@, "error:outer")]

\* variant: the try/catch encloses the for loop, a failure ends the loop
PollCatchBreak(r, k) ==
    [r EXCEPT !.log = Append(@, "error:fetch"), !.pc = "done",
              !.promise = "fulfilled"]

\* catch (error) { console.error(error); } of lines 254-256: the failed
\* fetch of chunk k is logged and the loop goes on with the next chunk
PollCatch(r, k) ==
    PollLoop([r EXCEPT !.log = Append(@, "error:fetch")], k + 1)

\* handleExpoReceipts(identifier) up to its first await (or to its end).
\* timer: the call d whose timer runs it, 0 for a direct call.
\* reconciledBefore: a run for the same identifier had already read the
\* stored batch and completed when this one started.
RunHandleExpoReceipts(identifier, timer) ==
    LET got == CacheGet(ticketCache, identifier)
        parsed == JSONparse(got)
        r0 == [identifier |-> identifier, timer |-> timer,
               found |-> got.found,
               reconciledBefore |-> \E i \in 1..Len(recs) :
                                       /\ recs[i].identifier = identifier
                                       /\ recs[i].found
                                       /\ recs[i].pc = "done",
               pc |-> "start", promise |-> "pending",
               tickets |-> <<>>, receiptIds |-> <<>>, chunks |-> <<>>,
               polls |-> <<>>, fetches |-> <<>>, classified |-> <<>>,
               log |-> <<>>]
    IN  IF parsed.threw \/ parsed.kind # "array"
        \* JSON.parse throws SyntaxError, or `for (... of null)` TypeError
        THEN OuterCatch(r0)
        ELSE LET receiptIds == ReceiptIds(parsed.items)
                 receiptIdChunks == chunkPushNotificationReceiptIds(receiptIds)
             IN  PollLoop([r0 EXCEPT !.tickets = parsed.items,
                                     !.receiptIds = receiptIds,
                                     !.chunks = receiptIdChunks], 1)

\* the identifiers a caller passes: a stored key, or one never stored
Identifiers == DOMAIN ticketCache \cup {toString(now)}

\* every identifier a run can see: the clock readings, as strings
IdentifierPool == {toString(k * ClockStep) : k \in 0..MaxAdvances} \cup {toString(1)}

\* a direct call of the exported handleExpoReceipts(identifier)
handleExpoReceipts(identifier) ==
    /\ TasksStarted < MaxTasks
    /\ identifier \in Identifiers
    /\ recs' = Append(recs, RunHandleExpoReceipts(identifier, 0))
    /\ UNCHANGED <<now, advances, ticketCache, calls, timers, dataVars>>

\* variant: the callback is queued without a delay
TimerDueNow(t) == TRUE

\* the timer queue may run a callback once its delay has elapsed
TimerDue(t) == now >= t.due

\* setTimeout callback of lines 207-209: await handleExpoReceipts(identifier)
TimerFired(d) ==
    /\ d \in 1..Len(timers)
    /\ timers[d].state = "pending"
    /\ TimerDue(timers[d])
    /\ timers' = [timers EXCEPT ![d].state = "fired"]
    /\ recs' = Append(recs, RunHandleExpoReceipts(timers[d].identifier, d))
    /\ UNCHANGED <<now, advances, ticketCache, calls, dataVars>>

\* lines 235-253: what is written to the console for one receipt
ClassifyLog(kind) ==
    IF kind = "ok" THEN <<>>
    ELSE IF kind = "error" THEN <<"error:message">>
    ELSE <<"error:message", "error:code">>

\* `await expo.getPushNotificationReceiptsAsync(chunk)` resolves (230-253)
ReceiptsResolved(i) ==
    /\ i \in 1..Len(recs)
    /\ recs[i].pc = "awaiting"
    /\ LET r == recs[i]
           k == r.polls[Len(r.polls)]
           chunk == r.chunks[k]
       IN  \E kinds \in [1..Len(chunk) -> ReceiptKinds] :
              LET receipts == [j \in 1..Len(chunk) |-> [id |-> chunk[j], kind |-> kinds[j]]]
                  logged == <<"log:receipts">>
                              \o Flatten([j \in 1..Len(chunk) |-> ClassifyLog(kinds[j])])
                  handled == [r EXCEPT !.fetches = Append(@, TRUE),
                                       !.classified = @ \o receipts,
                                       !.log = @ \o logged]
              IN  recs' = [recs EXCEPT ![i] = PollLoop(handled, k + 1)]
    /\ UNCHANGED <<now, advances, ticketCache, calls, timers, dataVars>>

\* `await expo.getPushNotificationReceiptsAsync(chunk)` rejects (254-256)
ReceiptsRejected(i) ==
    /\ i \in 1..Len(recs)
    /\ recs[i].pc = "awaiting"
    /\ LET r == recs[i]
           k == r.polls[Len(r.polls)]
           failed == [r EXCEPT !.fetches = Append(@, FALSE)]
       IN  recs' = [recs EXCEPT ![i] = PollCatch(failed, k)]
    /\ UNCHANGED <<now, advances, ticketCache, calls, timers, dataVars>>

(* -------------------------- specifications ----------------------------- *)
\* From process start every Ticket Store entry is the text "[]" (see
\* sendExpoNotifications), so no receipt fetch is ever awaited and the two
\* continuations of that await are left out of Next: they are never enabled.
Next ==
    \/ \E list \in Lists : sendExpoNotifications(list)
    \/ \E d \in 1..MaxTasks : SubmitResolved(d)
    \/ \E d \in 1..MaxTasks : SubmitRejected(d)
    \/ Advance
    \/ \E identifier \in IdentifierPool : handleExpoReceipts(identifier)
    \/ \E d \in 1..MaxTasks : TimerFired(d)

NextStored ==
    \/ Next
    \/ \E i \in 1..MaxTasks : ReceiptsResolved(i)
    \/ \E i \in 1..MaxTasks : ReceiptsRejected(i)

\* the program from process start
Spec == Init /\ [][Next]_vars

\* the tickets of an earlier batch as the gateway returned them, one per
\* message: accepted[n] tells whether the n-th message was accepted
StoredTickets(accepted) ==
    [n \in 1..Len(accepted) |->
        IF accepted[n] THEN OkTicket(0, n) ELSE ErrorTicket([to |-> "tok1"])]

\* values a Ticket Store entry may hold: a serialized ticket array, the JSON
\* text null, or text that is not JSON
StoredValues ==
    {JSONstringify(StoredTickets(accepted)) : accepted \in SeqUpTo(BOOLEAN, MaxStored)}
        \cup {<<Tok("null")>>, <<Tok("[")>>}

\* handleExpoReceipts takes its input from the Ticket Store.  StoredStart:
\* the store holds an entry under the key of an earlier millisecond and the
\* run stays within one clock reading (time plays no part in
\* handleExpoReceipts).
StoredStart ==
    /\ now = 1
    /\ advances = MaxAdvances
    /\ \E value \in StoredValues : ticketCache = CacheSet(<<>>, toString(0), value)
    /\ calls = <<>>
    /\ timers = <<>>
    /\ recs = <<>>
    /\ NoData

InitStored == Init \/ StoredStart

\* the program, from process start or with a batch in the Ticket Store
SpecStored == InitStored /\ [][NextStored]_vars
(* ----------------------------- calendar -------------------------------- *)
\* Date values are minutes since 1970-01-01T00:00Z (the model keeps dates to
\* the minute).
MinutesPerHour == 60
MinutesPerDay == 24 * 60
MsPerMinute == 60 * 1000

\* number of days from 1970-01-01 to the first day of month m of year y
\* (proleptic Gregorian calendar)
DaysFromCivil(y, m) ==
    LET yy == IF m <= 2 THEN y - 1 ELSE y
        era == yy \div 400
        yoe == yy - era * 400
        mp == IF m > 2 THEN m - 3 ELSE m + 9
        doy == (153 * mp + 2) \div 5
        doe == yoe * 365 + yoe \div 4 - yoe \div 100 + doy
    IN  era * 146097 + doe - 719468

\* the calendar date [year, month, day] of day number z
CivilFromDays(z) ==
    LET zz == z + 719468
        era == zz \div 146097
        doe == zz - era * 146097
        yoe == (doe - doe \div 1460 + doe \div 36524 - doe \div 146096) \div 365
        doy == doe - (365 * yoe + yoe \div 4 - yoe \div 100)
        mp == (5 * doy + 2) \div 153
        m == IF mp < 10 THEN mp + 3 ELSE mp - 9
    IN  [year |-> yoe + era * 400 + (IF m <= 2 THEN 1 ELSE 0),
         month |-> m,
         day |-> doy - (153 * mp + 2) \div 5 + 1]

\* new Date(Date.UTC(y, m - 1, d, h, min))
DateUTC(y, m, d, h, min) ==
    (DaysFromCivil(y, m) + d - 1) * MinutesPerDay + h * MinutesPerHour + min

\* userProfile.timezone: IANA zones without daylight saving, as the minutes
\* their local time is ahead of UTC
Timezones == {"UTC", "Asia/Tokyo", "Atlantic/Cape_Verde"}

UtcOffset(timezone) ==
    IF timezone = "Asia/Tokyo" THEN 9 * MinutesPerHour
    ELSE IF timezone = "Atlantic/Cape_Verde" THEN -1 * MinutesPerHour
    ELSE 0

\* { $year: date }, { $month: date }, { $dayOfMonth: date }: no timezone is
\* given, the parts are those of the date in UTC
Year(date) == CivilFromDays(date \div MinutesPerDay).year
Month(date) == CivilFromDays(date \div MinutesPerDay).month
DayOfMonth(date) == CivilFromDays(date \div MinutesPerDay).day

\* { $dateFromParts: { year, month, day, timezone } }: midnight of that day
\* on the clocks of the timezone; a day past the end of the month carries
\* into the next month
DateFromParts(year, month, day, timezone) ==
    (DaysFromCivil(year, month) + day - 1) * MinutesPerDay - UtcOffset(timezone)

\* { $dateDiff: { startDate, endDate, unit: 'hour', timezone } }: the number
\* of hour boundaries of the timezone's clocks passed from startDate to
\* endDate (negative when endDate is the earlier one)
DateDiffHours(startDate, endDate, timezone) ==
    (endDate + UtcOffset(timezone)) \div MinutesPerHour
        - (startDate + UtcOffset(timezone)) \div MinutesPerHour
(* ----------------------------- Resolver -------------------------------- *)
\* new Date(): the clock of Date.now(), as a Date
NewDate == epoch + now \div MsPerMinute

\* $lookup userprofiles (localField _id, foreignField user) and $unwind,
\* lines 24-33: one row per (user, profile of that user); a user without a
\* profile gives no row
UnwindUserProfile(users, userprofiles) ==
    Flatten([i \in 1..Len(users) |->
        LET found == SelectSeq(userprofiles, LAMBDA p : p.user = users[i]._id)
        IN  [j \in 1..Len(found) |-> [user |-> users[i], userProfile |-> found[j]]]])

\* $match of lines 34-42: email or push notifications enabled
ChannelEnabled(userProfile) ==
    userProfile.emailNotifications \/ userProfile.pushNotifications

\* $lookup friends (localField _id, foreignField user) and $unwind, lines
\* 44-52: one row per friend of the row's user
UnwindFriends(rows, friends) ==
    Flatten([i \in 1..Len(rows) |->
        LET found == SelectSeq(friends, LAMBDA f : f.user = rows[i].user._id)
        IN  [j \in 1..Len(found) |->
                [user |-> rows[i].user, userProfile |-> rows[i].userProfile,
                 friends |-> found[j]]]])

\* lines 55-66: the friend's birthday in the calendar year of currentDateTime
ThisYearBirthday(dob, currentDateTime, timezone) ==
    DateFromParts(Year(currentDateTime), Month(dob), DayOfMonth(dob), timezone)

\* lines 67-78: the friend's birthday in the year after
NextYearBirthday(dob, currentDateTime, timezone) ==
    DateFromParts(Year(currentDateTime) + 1, Month(dob), DayOfMonth(dob), timezone)

\* variant: $lte in place of $lt, a birthday starting now counts as passed
UpcomingBirthdayLte(thisYearBirthday, nextYearBirthday, currentDateTime) ==
    IF thisYearBirthday <= currentDateTime THEN nextYearBirthday
    ELSE thisYearBirthday

\* $cond of lines 79-89
UpcomingBirthday(thisYearBirthday, nextYearBirthday, currentDateTime) ==
    IF thisYearBirthday < currentDateTime THEN nextYearBirthday
    ELSE thisYearBirthday

\* the $addFields stages of lines 55-102 on one row
AddBirthdayFields(row, currentDateTime) ==
    LET timezone == row.userProfile.timezone
        thisYearBirthday == ThisYearBirthday(row.friends.dob, currentDateTime, timezone)
        nextYearBirthday == NextYearBirthday(row.friends.dob, currentDateTime, timezone)
        upcomingBirthday ==
            UpcomingBirthday(thisYearBirthday, nextYearBirthday, currentDateTime)
    IN  [user |-> row.user, userProfile |-> row.userProfile, friends |-> row.friends,
         thisYearBirthday |-> thisYearBirthday,
         nextYearBirthday |-> nextYearBirthday,
         upcomingBirthday |-> upcomingBirthday,
         hoursUntilBirthday |-> DateDiffHours(currentDateTime, upcomingBirthday, timezone)]

\* variant: $lt in place of $lte
WithinCutoffLt(hoursUntilBirthday, cutoffHours) == hoursUntilBirthday < cutoffHours

\* $match of lines 103-108
WithinCutoff(hoursUntilBirthday, cutoffHours) == hoursUntilBirthday <= cutoffHours

\* variant: $gte in place of $gt
IsRecentNotificationGte(notification, row, notificationClearanceDateTime) ==
    /\ notification.userId = row.userProfile.user
    /\ notification.friendId = row.friends._id
    /\ notification.dateSent >= notificationClearanceDateTime

\* the $expr of lines 116-124
IsRecentNotification(notification, row, notificationClearanceDateTime) ==
    /\ notification.userId = row.userProfile.user
    /\ notification.friendId = row.friends._id
    /\ notification.dateSent > notificationClearanceDateTime

\* $lookup notifications, lines 110-129
RecentNotifications(row, notifications, notificationClearanceDateTime) ==
    SelectSeq(notifications,
              LAMBDA n : IsRecentNotification(n, row, notificationClearanceDateTime))

\* the projected document of lines 145-156, mapped as in lines 158-167;
\* device is a sequence of at most one deviceinfos document, and the token
\* of a row without device is undefined (modelled as Null)
Project(row, device) ==
    [userId |-> row.userProfile.user,
     email |-> row.user.email,
     token |-> IF device = <<>> THEN Null ELSE device[1].deviceToken,
     friendId |-> row.friends._id,
     friendName |-> row.friends.name,
     hoursUntil |-> row.hoursUntilBirthday,
     emailNotifications |-> row.userProfile.emailNotifications,
     pushNotifications |-> row.userProfile.pushNotifications]

\* variant: only the first device of the user is joined
UnwindDeviceFirst(row, deviceinfos) ==
    LET found == SelectSeq(deviceinfos, LAMBDA d : d.userId = row.user._id)
    IN  IF found = <<>> THEN <<Project(row, <<>>)>>
        ELSE <<Project(row, <<found[1]>>)>>

\* $lookup deviceinfos and $unwind with preserveNullAndEmptyArrays, lines
\* 133-143: one row per device of the user, one row when there is none
UnwindDevice(row, deviceinfos) ==
    LET found == SelectSeq(deviceinfos, LAMBDA d : d.userId = row.user._id)
    IN  IF found = <<>> THEN <<Project(row, <<>>)>>
        ELSE [j \in 1..Len(found) |-> Project(row, <<found[j]>>)]

\* User.aggregate([...]).exec() of lines 23-157 and the map of lines 158-167
Aggregate(data, currentDateTime, notificationClearanceDateTime, cutoffHours) ==
    LET profiled == UnwindUserProfile(data.users, data.userprofiles)
        enabled == SelectSeq(profiled, LAMBDA r : ChannelEnabled(r.userProfile))
        befriended == UnwindFriends(enabled, data.friends)
        dated == [i \in 1..Len(befriended) |->
                     AddBirthdayFields(befriended[i], currentDateTime)]
        approaching == SelectSeq(dated,
                           LAMBDA r : WithinCutoff(r.hoursUntilBirthday, cutoffHours))
        cleared == SelectSeq(approaching,
                       LAMBDA r : RecentNotifications(r, data.notifications,
                                      notificationClearanceDateTime) = <<>>)
    IN  Flatten([i \in 1..Len(cleared) |-> UnwindDevice(cleared[i], data.deviceinfos)])
\* variant: the catch block rethrows
ResolverCatchRethrow(r) ==
    [r EXCEPT !.pc = "done", !.promise = "rejected",
              !.log = Append(@, "error:resolve")]

\* catch (error) { console.error(error); return []; } of lines 168-171
ResolverCatch(r) ==
    [r EXCEPT !.pc = "done", !.promise = "fulfilled", !.result = <<>>,
              !.log = Append(@, "error:resolve")]

\* getApproachingBirthdays(cutoffHours, lastNotificationClearance) up to
\* the await of line 23: the two dates are taken and the query is issued
getApproachingBirthdays(cutoffHours, lastNotificationClearance) ==
    /\ run.pc = "idle"
    /\ LET currentDateTime == NewDate
           notificationClearanceDateTime ==
               currentDateTime - lastNotificationClearance * MinutesPerHour
       IN  run' = [pc |-> "awaiting", promise |-> "pending",
                   cutoffHours |-> cutoffHours,
                   lastNotificationClearance |-> lastNotificationClearance,
                   currentDateTime |-> currentDateTime,
                   notificationClearanceDateTime |-> notificationClearanceDateTime,
                   outcome |-> "none", result |-> <<>>, log |-> <<>>]
    /\ UNCHANGED <<now, advances, ticketCache, calls, timers, recs, epoch, db, saves>>

\* `await User.aggregate([...]).exec()` resolves: lines 158-167
AggregateResolved ==
    /\ run.pc = "awaiting"
    /\ run' = [run EXCEPT !.pc = "done", !.promise = "fulfilled",
                          !.outcome = "resolved",
                          !.result = Aggregate(db, run.currentDateTime,
                                               run.notificationClearanceDateTime,
                                               run.cutoffHours)]
    /\ UNCHANGED <<now, advances, ticketCache, calls, timers, recs, epoch, db, saves>>

\* `await User.aggregate([...]).exec()` rejects: lines 168-171
AggregateRejected ==
    /\ run.pc = "awaiting"
    /\ run' = ResolverCatch([run EXCEPT !.outcome = "rejected"])
    /\ UNCHANGED <<now, advances, ticketCache, calls, timers, recs, epoch, db, saves>>

\* the caller hands the Resolver's result to the Dispatcher, once
Dispatch ==
    /\ run.pc = "done"
    /\ calls = <<>>
    /\ sendExpoNotifications(run.result)

(* ------------------------- Resolver inputs ----------------------------- *)
\* number of friends of the user
MaxFriends == 2
\* number of notification records
MaxNotifications == 1
\* number of device records of the user
MaxDevices == 2

\* defaults of the parameters (line 16)
DefaultCutoffHours == 96
DefaultClearance == 24

Cutoffs == {DefaultCutoffHours, DefaultCutoffHours - 1}
Clearances == {DefaultClearance}

\* evaluation instants: either side of the turn of the year, and 96 hours
\* before, at the start of and during 14 March (UTC)
Instants ==
    {DateUTC(2024, 12, 31, 20, 0), DateUTC(2025, 1, 1, 0, 30),
     DateUTC(2025, 3, 10, 0, 0), DateUTC(2025, 3, 14, 0, 0),
     DateUTC(2025, 3, 14, 10, 0)}

\* dates of birth of the friends
Dobs == {DateUTC(1990, 1, 1, 0, 0), DateUTC(1990, 3, 14, 0, 0), DateUTC(1990, 12, 31, 0, 0)}

FriendIds == <<"f1", "f2", "f3", "f4">>
FriendNames == <<"Ann", "Bob", "Cyd", "Dee">>
DeviceTokens == <<"tok1", "tok2", "tok3", "tok4">>

\* notification records around the clearance threshold, for the user's first
\* friend, for another friend and for another user
NotificationPool(threshold) ==
    {[userId |-> "u1", friendId |-> "f1", dateSent |-> threshold + 1],
     [userId |-> "u1", friendId |-> "f1", dateSent |-> threshold],
     [userId |-> "u1", friendId |-> "f1", dateSent |-> threshold - 1],
     [userId |-> "u2", friendId |-> "f1", dateSent |-> threshold + 1],
     [userId |-> "u1", friendId |-> "f2", dateSent |-> threshold + 1]}

RECURSIVE SetToSeq(_)
SetToSeq(S) ==
    IF S = {} THEN <<>>
    ELSE LET x == CHOOSE y \in S : TRUE IN <<x>> \o SetToSeq(S \ {x})

\* the collections: user u2 (email notifications only, one device, one
\* friend born on 14 March) and user u1 with the profile, friends and
\* devices given; the notification records
Database(timezone, email, push, dobs, sent, devices) ==
    [users |-> <<[_id |-> "u2", email |-> "u2@x"], [_id |-> "u1", email |-> "u1@x"]>>,
     userprofiles |-> <<[user |-> "u2", timezone |-> "UTC",
                         emailNotifications |-> TRUE,
                         pushNotifications |-> FALSE],
                        [user |-> "u1", timezone |-> timezone,
                         emailNotifications |-> email,
                         pushNotifications |-> push]>>,
     friends |-> <<[_id |-> "g1", user |-> "u2", name |-> "Gus",
                    dob |-> DateUTC(1990, 3, 14, 0, 0)]>>
                 \o [i \in 1..Len(dobs) |->
                        [_id |-> FriendIds[i], user |-> "u1",
                         name |-> FriendNames[i], dob |-> dobs[i]]],
     notifications |-> SetToSeq(sent),
     deviceinfos |-> <<[userId |-> "u2", deviceToken |-> "tok0"]>>
                     \o [i \in 1..devices |->
                            [userId |-> "u1", deviceToken |-> DeviceTokens[i]]]]

\* the dates of birth of the user's friends: at most MaxFriends friends,
\* born on different days
FriendDobs ==
    {SetToSeq(S) : S \in {T \in SUBSET Dobs : Cardinality(T) <= MaxFriends}}

\* the process starts at one of the instants with the collections filled
InitResolver ==
    /\ now = 0
    /\ advances = MaxAdvances
    /\ ticketCache = <<>>
    /\ calls = <<>>
    /\ timers = <<>>
    /\ recs = <<>>
    /\ epoch \in Instants
    /\ \E timezone \in Timezones, email, push \in BOOLEAN,
          dobs \in FriendDobs, devices \in 0..MaxDevices :
          \E sent \in {S \in SUBSET NotificationPool(epoch - DefaultClearance * MinutesPerHour) :
                          Cardinality(S) <= MaxNotifications} :
             db = Database(timezone, email, push, dobs, sent, devices)
    /\ run = NoRun
    /\ saves = <<>>

NextResolver ==
    \/ \E cutoffHours \in Cutoffs, lastNotificationClearance \in Clearances :
          getApproachingBirthdays(cutoffHours, lastNotificationClearance)
    \/ AggregateResolved
    \/ AggregateRejected
    \/ Dispatch

\* the Resolver and the hand-over of its result to the Dispatcher
SpecResolver == InitResolver /\ [][NextResolver]_vars
(* ---------------------------- User model ------------------------------- *)
\* A password is the sequence of the classes of its characters: "lower"
\* [a-z], "upper" [A-Z], "digit" \d, "special" (one of the listed
\* punctuation characters); any other character is of class "other".
CharClasses == {"lower", "upper", "digit", "special"}

\* the regular expression of line 44: four lookaheads, then eight or more
\* characters of the four classes
validatePasswordPattern(val) ==
    /\ \E i \in 1..Len(val) : val[i] = "lower"
    /\ \E i \in 1..Len(val) : val[i] = "upper"
    /\ \E i \in 1..Len(val) : val[i] = "digit"
    /\ \E i \in 1..Len(val) : val[i] = "special"
    /\ \A i \in 1..Len(val) : val[i] \in CharClasses
    /\ Len(val) >= 8

\* variant: >= in place of >
DobInFutureGte(dob, date) == dob >= date

\* this.dob > new Date() of line 55
DobInFuture(dob, date) == dob > date

\* hashString(val): the digest stands for the text it was made from
hashString(val) == <<"hash">> \o val

\* next() without error: the document is written to the users collection,
\* inserted when new, replaced otherwise
Persist(users, doc, isNew) ==
    IF isNew THEN Append(users, doc)
    ELSE [i \in 1..Len(users) |-> IF users[i]._id = doc._id THEN doc ELSE users[i]]

\* next(error): the save is rejected with the error
Rejected(s, message) == [s EXCEPT !.pc = "rejected", !.error = message]

\* lines 54-71 run from the dob check to next(...) or to the await of
\* hashString: the save record after them
Validate(s, date) ==
    LET checked == [s EXCEPT !.dobCheckedAt =
                                 IF s.modified.dob THEN <<date>> ELSE <<>>]
    IN  IF s.modified.dob /\ DobInFuture(s.doc.dob, date)
        THEN Rejected(checked, "Date of birth cannot be in the future")
        ELSE IF ~s.modified.passwordHash
        THEN [checked EXCEPT !.pc = "saved", !.savedAt = <<date>>]
        ELSE IF ~validatePasswordPattern(s.doc.passwordHash)
        THEN Rejected(checked, "Password must have at least 1 lower-case, 1 upper-case letter, 1 digit and 1 special character")
        ELSE [checked EXCEPT !.pc = "awaitHash"]

\* the users collection after the step that took the save to record s
Written(users, s) ==
    IF s.pc = "saved" THEN Persist(users, s.doc, s.isNew) ELSE users
\* number of save() calls in one run
MaxSaves == 2

UserIdPool == {"u1", "u2"}

\* the wall-clock minute at which the process starts
UserEpoch == DateUTC(2025, 3, 10, 0, 0)

\* dates of birth handed to save(): a day before process start, the minute
\* of process start, and the minute after
UserDobs == {UserEpoch - MinutesPerDay, UserEpoch, UserEpoch + 1}

\* "Passw0rd!" and "password"
Passwords ==
    {<<"upper", "lower", "lower", "lower", "lower", "digit", "lower", "lower", "special">>,
     <<"lower", "lower", "lower", "lower", "lower", "lower", "lower", "lower">>}

\* the persisted user documents with a given _id
UsersWithId(id) == SelectSeq(db.users, LAMBDA u : u._id = id)

\* a save of the document is under way
Saving(id) ==
    \E i \in 1..Len(saves) :
        saves[i].doc._id = id /\ saves[i].pc \in {"awaitProfile", "awaitHash"}

\* doc.save() of a User document, up to the first await of the pre-save
\* hook (lines 47-72) or through it.  A document that is not in the
\* collection is new and has all its fields set; one that is has the given
\* fields changed.
save(id, setDob, dob, setPassword, password) ==
    /\ Len(saves) < MaxSaves
    /\ ~Saving(id)
    /\ UsersWithId(id) = <<>> => setDob /\ setPassword
    /\ LET isNew == UsersWithId(id) = <<>>
           old == IF isNew
                  THEN [_id |-> id, email |-> id, dob |-> dob, passwordHash |-> password]
                  ELSE UsersWithId(id)[1]
           doc == [old EXCEPT !.dob = IF setDob THEN dob ELSE @,
                              !.passwordHash = IF setPassword THEN password ELSE @]
           s == [doc |-> doc, isNew |-> isNew,
                 modified |-> [dob |-> isNew \/ doc.dob # old.dob,
                               passwordHash |-> isNew \/ doc.passwordHash # old.passwordHash],
                 pc |-> "awaitProfile", error |-> "",
                 dobCheckedAt |-> <<>>, savedAt |-> <<>>]
           \* if (this.isNew) await Profile.create({ user: this._id })
           started == IF isNew THEN s ELSE Validate(s, NewDate)
       IN  /\ saves' = Append(saves, started)
           /\ db' = [db EXCEPT !.users = Written(@, started)]
    /\ UNCHANGED <<now, advances, ticketCache, calls, timers, recs, epoch, run>>

\* `await Profile.create({ user: this._id })` resolves: the profile is in
\* the userprofiles collection and the hook goes on with line 54
ProfileCreateResolved(i) ==
    /\ i \in 1..Len(saves)
    /\ saves[i].pc = "awaitProfile"
    /\ LET validated == Validate(saves[i], NewDate)
       IN  /\ saves' = [saves EXCEPT ![i] = validated]
           /\ db' = [db EXCEPT !.userprofiles = Append(@, [user |-> saves[i].doc._id]),
                               !.users = Written(@, validated)]
    /\ UNCHANGED <<now, advances, ticketCache, calls, timers, recs, epoch, run>>

\* `await Profile.create({ user: this._id })` rejects: the hook's promise
\* rejects and the save fails with that error
ProfileCreateRejected(i) ==
    /\ i \in 1..Len(saves)
    /\ saves[i].pc = "awaitProfile"
    /\ saves' = [saves EXCEPT ![i] = Rejected(@, "Profile.create failed")]
    /\ UNCHANGED <<now, advances, ticketCache, calls, timers, recs, epoch, db, run>>

\* `await hashString(this.passwordHash!)` resolves: lines 67-68
HashResolved(i) ==
    /\ i \in 1..Len(saves)
    /\ saves[i].pc = "awaitHash"
    /\ LET hashed == [saves[i] EXCEPT !.doc.passwordHash = hashString(@),
                                      !.pc = "saved", !.savedAt = <<NewDate>>]
       IN  /\ saves' = [saves EXCEPT ![i] = hashed]
           /\ db' = [db EXCEPT !.users = Written(@, hashed)]
    /\ UNCHANGED <<now, advances, ticketCache, calls, timers, recs, epoch, run>>

\* `await hashString(this.passwordHash!)` rejects: lines 69-71
HashRejected(i) ==
    /\ i \in 1..Len(saves)
    /\ saves[i].pc = "awaitHash"
    /\ saves' = [saves EXCEPT ![i] = Rejected(@, "hashString failed")]
    /\ UNCHANGED <<now, advances, ticketCache, calls, timers, recs, epoch, db, run>>

\* the process has just started, the collections are empty
InitUser ==
    /\ now = 0
    /\ advances = 0
    /\ ticketCache = <<>>
    /\ calls = <<>>
    /\ timers = <<>>
    /\ recs = <<>>
    /\ epoch = UserEpoch
    /\ db = EmptyDb
    /\ run = NoRun
    /\ saves = <<>>

NextUser ==
    \/ \E id \in UserIdPool, setDob, setPassword \in BOOLEAN,
          dob \in UserDobs, password \in Passwords :
          save(id, setDob, dob, setPassword, password)
    \/ \E i \in 1..MaxSaves : ProfileCreateResolved(i)
    \/ \E i \in 1..MaxSaves : ProfileCreateRejected(i)
    \/ \E i \in 1..MaxSaves : HashResolved(i)
    \/ \E i \in 1..MaxSaves : HashRejected(i)
    \/ Advance

\* saves of User documents
SpecUser == InitUser /\ [][NextUser]_vars
(* ------------------------------ claims --------------------------------- *)
\* the tickets returned by the chunk submissions of call c that succeeded,
\* concatenated in submission order
SuccessfulTickets(c) ==
    Flatten([k \in 1..Len(c.outcomes) |->
                IF c.outcomes[k].ok THEN c.outcomes[k].tickets ELSE <<>>])

\* the receipt identifiers run r has polled the provider for
PolledIds(r) ==
    UNION {{r.chunks[r.polls[p]][j] : j \in 1..Len(r.chunks[r.polls[p]])} :
              p \in 1..Len(r.polls)}

\* the receipt identifiers whose receipt run r has classified
ClassifiedIds(r) == {r.classified[n].id : n \in 1..Len(r.classified)}

\* C1: in every dispatch call the Ticket Store write happens only after all
\* chunk submissions of the call have completed, and the value written is
\* the concatenation, in submission order, of the tickets of the chunks
\* that were submitted successfully.
C1_WriteAfterAllChunks ==
    \A d \in 1..Len(calls) :
        /\ calls[d].pc = "done"
        /\ calls[d].written = JSONstringify(SuccessfulTickets(calls[d]))

\* C2: once the reconciliation scheduled by a dispatch call has run, every
\* receipt identifier carried by a ticket that a chunk submission of that
\* call returned has been polled, and classified when the fetch returned.
C2_TicketsReconciled ==
    \A i \in 1..Len(recs) :
        (recs[i].timer # 0 /\ recs[i].pc = "done") =>
            \A n \in 1..Len(calls[recs[i].timer].tickets) :
                LET ticket == calls[recs[i].timer].tickets[n]
                IN  HasId(ticket) =>
                        /\ ticket.id \in PolledIds(recs[i])
                        /\ \/ ticket.id \in ClassifiedIds(recs[i])
                           \/ \E p \in 1..Len(recs[i].fetches) : ~recs[i].fetches[p]

\* C3: two distinct dispatch calls use distinct batch identifiers, so no
\* Ticket Store entry is written twice.
C3_DistinctBatchIdentifiers ==
    \A d1, d2 \in 1..Len(calls) :
        d1 # d2 => calls[d1].identifier # calls[d2].identifier

\* C4: handleExpoReceipts with an identifier absent from the Ticket Store is
\* a no-op: the store is unchanged, the provider is polled for nothing and
\* the call completes without an error leaving it.
C4_AbsentIsNoOp ==
    [][\A identifier \in IdentifierPool :
          (handleExpoReceipts(identifier) /\ identifier \notin DOMAIN ticketCache) =>
              /\ ticketCache' = ticketCache
              /\ LET r == recs'[Len(recs')]
                 IN  /\ ~r.found
                     /\ r.polls = <<>>
                     /\ r.classified = <<>>
                     /\ r.pc = "done"
                     /\ r.promise = "fulfilled"]_vars

\* C4 witness: a call with an absent identifier has been made
C4_Witness ==
    \E i \in 1..Len(recs) :
        /\ ~recs[i].found
        /\ recs[i].pc = "done"
        /\ recs[i].identifier \notin DOMAIN ticketCache

\* C5: after a reconcile of a stored batch has completed, a later reconcile
\* of the same identifier polls the provider for no receipt.
C5_ReconciledAtMostOnce ==
    \A i \in 1..Len(recs) :
        recs[i].reconciledBefore => recs[i].polls = <<>>
\* C6: no error leaves sendExpoNotifications, the async function it starts,
\* handleExpoReceipts or the timer callback awaiting it: no promise of any
\* of them is rejected.
C6_NoErrorEscapes ==
    /\ \A d \in 1..Len(calls) :
          /\ calls[d].promise = "fulfilled"
          /\ calls[d].pc \in {"awaiting", "done"}
    /\ \A i \in 1..Len(recs) :
          /\ recs[i].promise \in {"pending", "fulfilled"}
          /\ recs[i].pc = "done" => recs[i].promise = "fulfilled"

\* C6 witness: a chunk submission failed and a receipt fetch failed, and
\* both the call and the run have finished
C6_Witness ==
    /\ \E d \in 1..Len(calls) :
          /\ calls[d].pc = "done"
          /\ \E k \in 1..Len(calls[d].outcomes) : ~calls[d].outcomes[k].ok
    /\ \E i \in 1..Len(recs) :
          /\ recs[i].pc = "done"
          /\ \E p \in 1..Len(recs[i].fetches) : ~recs[i].fetches[p]

\* C7: every chunk of a dispatch call is submitted exactly once, in order,
\* whether or not earlier chunks failed; the collected tickets are those of
\* the successful chunks and only those.
C7_SubmitFailureIsolated ==
    \A d \in 1..Len(calls) :
        LET c == calls[d]
        IN  /\ c.submissions = [k \in 1..Len(c.submissions) |-> k]
            /\ Len(c.submissions) <= Len(c.chunks)
            /\ c.pc = "done" => /\ Len(c.submissions) = Len(c.chunks)
                                /\ Len(c.outcomes) = Len(c.chunks)
            /\ c.tickets = SuccessfulTickets(c)
            /\ \A k \in 1..Len(c.outcomes) :
                  Len(c.outcomes[k].tickets) =
                      IF c.outcomes[k].ok THEN Len(c.chunks[k]) ELSE 0

\* C7 witness: a call finished whose first chunk failed and whose second
\* chunk succeeded
C7_Witness ==
    \E d \in 1..Len(calls) :
        /\ calls[d].pc = "done"
        /\ Len(calls[d].chunks) >= 2
        /\ ~calls[d].outcomes[1].ok
        /\ calls[d].outcomes[2].ok
        /\ calls[d].tickets # <<>>

\* the receipt identifiers of the chunks of run r whose fetch succeeded
FetchedIds(r) ==
    Flatten([p \in 1..Len(r.fetches) |->
                IF r.fetches[p] THEN r.chunks[p] ELSE <<>>])

\* C8: every chunk of receipt identifiers is polled exactly once, in order,
\* whether or not earlier fetches failed; the receipts classified are those
\* of the successful fetches and only those.
C8_FetchFailureIsolated ==
    \A i \in 1..Len(recs) :
        LET r == recs[i]
        IN  /\ r.polls = [k \in 1..Len(r.polls) |-> k]
            /\ Len(r.polls) <= Len(r.chunks)
            /\ r.pc = "done" => /\ Len(r.polls) = Len(r.chunks)
                                /\ Len(r.fetches) = Len(r.chunks)
            /\ [n \in 1..Len(r.classified) |-> r.classified[n].id] = FetchedIds(r)

\* C8 witness: a run finished whose first fetch failed and whose second
\* fetch succeeded
C8_Witness ==
    \E i \in 1..Len(recs) :
        /\ recs[i].pc = "done"
        /\ Len(recs[i].chunks) >= 2
        /\ ~recs[i].fetches[1]
        /\ recs[i].fetches[2]
        /\ recs[i].classified # <<>>

RECURSIVE IdsInOrder(_)
\* the identifiers of the tickets that carry one, in the tickets' order
IdsInOrder(tickets) ==
    IF tickets = <<>> THEN <<>>
    ELSE IF "id" \in DOMAIN Head(tickets)
         THEN <<Head(tickets).id>> \o IdsInOrder(Tail(tickets))
         ELSE IdsInOrder(Tail(tickets))

\* the run went through the outer catch block
Caught(r) == r.log # <<>> /\ r.log[1] = "error:outer"

\* C9: chunks partition the messages in order and are submitted one at a
\* time in that order; when every chunk succeeded the i-th collected ticket
\* is the ticket of the i-th message; the receipt identifiers the
\* Reconciler extracts are those of the stored tickets that carry one, in
\* stored order.
C9_OrderPreserved ==
    /\ \A d \in 1..Len(calls) :
          LET c == calls[d]
          IN  /\ Flatten(c.chunks) = c.messages
              /\ c.submissions = [k \in 1..Len(c.submissions) |-> k]
              /\ Len(c.submissions) - Len(c.outcomes) = IF c.pc = "awaiting" THEN 1 ELSE 0
              /\ (c.pc = "done" /\ \A k \in 1..Len(c.outcomes) : c.outcomes[k].ok) =>
                    /\ Len(c.tickets) = Len(c.messages)
                    /\ \A n \in 1..Len(c.tickets) :
                          c.tickets[n] \in {OkTicket(d, n), ErrorTicket(c.messages[n])}
    /\ \A i \in 1..Len(recs) :
          LET r == recs[i]
          IN  /\ r.receiptIds = IdsInOrder(r.tickets)
              /\ Flatten(r.chunks) = r.receiptIds
              /\ (r.found /\ ~Caught(r)) =>
                    ticketCache[r.identifier] = JSONstringify(r.tickets)

\* C9 witness: a call whose two chunks both succeeded, and a run that
\* extracted a receipt identifier from stored tickets of which another
\* carries none
C9_Witness ==
    /\ \E d \in 1..Len(calls) :
          /\ calls[d].pc = "done"
          /\ Len(calls[d].chunks) >= 2
          /\ \A k \in 1..Len(calls[d].outcomes) : calls[d].outcomes[k].ok
    /\ \E i \in 1..Len(recs) :
          /\ recs[i].receiptIds # <<>>
          /\ Len(recs[i].tickets) > Len(recs[i].receiptIds)

\* C10: every dispatch call, with or without push messages, makes exactly
\* one timer for its own identifier; the timer runs its callback at most
\* once and not before 60 seconds have passed; a pending timer is never
\* removed, and a due timer can run whatever the other timers do.
C10_OneTimerPerBatch ==
    /\ [](/\ Len(timers) = Len(calls)
          /\ \A d \in 1..Len(timers) :
                /\ timers[d].identifier = calls[d].identifier
                /\ Cardinality({i \in 1..Len(recs) : recs[i].timer = d})
                      = IF timers[d].state = "fired" THEN 1 ELSE 0
                /\ \A i \in 1..Len(recs) :
                      recs[i].timer = d => recs[i].identifier = timers[d].identifier
                /\ (timers[d].state = "pending" /\ now >= timers[d].scheduledAt + ReconcileDelay)
                      => ENABLED TimerFired(d))
    /\ [][\A d \in 1..Len(timers) :
             \/ timers'[d] = timers[d]
             \/ /\ timers[d].state = "pending"
                /\ timers'[d] = [timers[d] EXCEPT !.state = "fired"]
                /\ now >= timers[d].scheduledAt + ReconcileDelay
                /\ \A e \in 1..Len(timers) : e # d => timers'[e] = timers[e]]_vars

\* C10 witness: two batches with different identifiers, one made by a call
\* without push messages; one timer has run while the other is pending
C10_Witness ==
    \E d1, d2 \in 1..Len(timers) :
        /\ timers[d1].identifier # timers[d2].identifier
        /\ timers[d1].state = "fired"
        /\ timers[d2].state = "pending"
        /\ calls[d1].messages = <<>>
        /\ calls[d2].messages # <<>>

\* ceil(n / s) for n >= 0, s > 0
Ceil(n, s) == (n + s - 1) \div s

C19_MissingBatchSilent ==
    \A i \in 1..Len(recs) :
        ~recs[i].found => /\ recs[i].log = <<>>
                          /\ ~Caught(recs[i])

\* the run of getApproachingBirthdays has returned what the query gave
Resolved == run.pc = "done" /\ run.outcome = "resolved"

\* the tuples of a list that are for the pair (userId, friendId)
TuplesOf(list, userId, friendId) ==
    SelectSeq(list, LAMBDA t : t.userId = userId /\ t.friendId = friendId)

RECURSIVE EligibleMessages(_)
\* one message per tuple with pushNotifications true and a token present,
\* in the order of the tuples
EligibleMessages(list) ==
    IF list = <<>> THEN <<>>
    ELSE LET t == Head(list)
         IN  (IF t.pushNotifications = TRUE /\ t.token # Null
              THEN <<[to |-> t.token, sound |-> "default",
                      body |-> <<t.friendName, "'s birthday is ",
                                 toString(t.hoursUntil), " hours away!">>]>>
              ELSE <<>>) \o EligibleMessages(Tail(list))

\* C12: the Dispatcher builds a message for a tuple if and only if its
\* pushNotifications flag is true and its token is present; the message goes
\* to the tuple's token with a body made of its friendName and hoursUntil;
\* one message per surviving tuple, in input order.
C12_MessagePerEligibleTuple ==
    \A d \in 1..Len(calls) :
        /\ calls[d].messages = EligibleMessages(run.result)
        /\ Flatten(calls[d].chunks) = calls[d].messages

\* C12 witness: the list handed over has an email-only tuple before a push
\* tuple with a token, and one message was built
C12_Witness ==
    /\ Len(calls) = 1
    /\ Len(calls[1].messages) = 1
    /\ Len(run.result) = 2
    /\ ~run.result[1].pushNotifications
    /\ run.result[1].token # Null
    /\ run.result[2].pushNotifications
    /\ calls[1].messages[1].to = run.result[2].token

\* C12 witness: a push tuple without token gave no message
C12_WitnessNoToken ==
    /\ Len(calls) = 1
    /\ calls[1].messages = <<>>
    /\ \E i \in 1..Len(run.result) :
          run.result[i].pushNotifications /\ run.result[i].token = Null

\* the (user, profile, friend) triples of the database: a user, a profile
\* of that user and a friend of that user
Triples ==
    {t \in [user : {db.users[i] : i \in 1..Len(db.users)},
            userProfile : {db.userprofiles[i] : i \in 1..Len(db.userprofiles)},
            friends : {db.friends[i] : i \in 1..Len(db.friends)}] :
        t.userProfile.user = t.user._id /\ t.friends.user = t.user._id}

\* the birthday occurrence the run evaluates for a triple, and its hours
Evaluated(t) == AddBirthdayFields(t, run.currentDateTime)

\* some notification record of exactly this pair was sent strictly later
\* than now - clearanceHours
RecentlyNotified(t) ==
    \E i \in 1..Len(db.notifications) :
        /\ db.notifications[i].userId = t.user._id
        /\ db.notifications[i].friendId = t.friends._id
        /\ db.notifications[i].dateSent >
               run.currentDateTime - run.lastNotificationClearance * MinutesPerHour

\* at least one notification channel of the profile is enabled
SomeChannel(userProfile) ==
    userProfile.emailNotifications = TRUE \/ userProfile.pushNotifications = TRUE

\* the result holds a tuple for the pair of the triple
Returned(t) == TuplesOf(run.result, t.user._id, t.friends._id) # <<>>

\* minutes from the evaluation instant to the occurrence evaluated
MinutesAway(t) == Evaluated(t).upcomingBirthday - run.currentDateTime

C14_WitnessDiscarded ==
    /\ Resolved
    /\ \E t, o \in Triples :
          /\ t.user # o.user
          /\ SomeChannel(t.userProfile)
          /\ Evaluated(t).hoursUntilBirthday <= run.cutoffHours
          /\ RecentlyNotified(t) /\ ~Returned(t)
          /\ Returned(o)

\* the calendar year of a date on the clocks of a timezone
LocalYear(date, timezone) == Year(date + UtcOffset(timezone))

\* the friend's birthday in a given year, on the clocks of the timezone
BirthdayIn(year, dob, timezone) ==
    DateFromParts(year, Month(dob), DayOfMonth(dob), timezone)

\* C15: the birthday occurrence the Resolver evaluates is never earlier than
\* now; a friend whose birthday of the current calendar year, taken in the
\* user's timezone, is already past is evaluated against the occurrence of
\* the year after; hoursUntil of every returned tuple is non-negative.
C15_UpcomingNeverPast ==
    Resolved =>
        /\ \A t \in Triples :
              LET timezone == t.userProfile.timezone
                  year == LocalYear(run.currentDateTime, timezone)
              IN  SomeChannel(t.userProfile) =>
                      /\ Evaluated(t).upcomingBirthday >= run.currentDateTime
                      /\ BirthdayIn(year, t.friends.dob, timezone) < run.currentDateTime =>
                            Evaluated(t).upcomingBirthday =
                                BirthdayIn(year + 1, t.friends.dob, timezone)
        /\ \A i \in 1..Len(run.result) : run.result[i].hoursUntil >= 0

\* C16: an error raised while the Resolver derives the tuples stays inside
\* it: the call's promise is never rejected and a failed query makes it
\* return the empty sequence; no step of the Resolver changes a collection.
C16_ResolverAbsorbsErrors ==
    /\ [](run.pc # "idle" =>
            /\ run.promise \in {"pending", "fulfilled"}
            /\ run.pc = "done" => run.promise = "fulfilled"
            /\ run.outcome = "rejected" =>
                  /\ run.pc = "done"
                  /\ run.result = <<>>)
    /\ [][run' # run => db' = db]_vars

\* C16 witness: the query of a database with an approaching birthday failed
\* and the call has returned
C16_Witness ==
    /\ run.pc = "done"
    /\ run.outcome = "rejected"
    /\ run.log = <<"error:resolve">>
    /\ Aggregate(db, run.currentDateTime, run.notificationClearanceDateTime,
                 run.cutoffHours) # <<>>

\* the (userId, friendId) pairs of the tuples of a list
PairsOf(list) == {<<list[i].userId, list[i].friendId>> : i \in 1..Len(list)}

\* C18: the Resolver returns at most one tuple per (userId, friendId) pair,
\* whatever the number of device records of the user (with none, one tuple
\* whose token is absent), so the Dispatcher builds at most one message per
\* pair.
C18_OneTuplePerPair ==
    Resolved =>
        /\ \A i, j \in 1..Len(run.result) :
              (/\ run.result[i].userId = run.result[j].userId
               /\ run.result[i].friendId = run.result[j].friendId) => i = j
        /\ \A t \in Triples :
              (Returned(t) /\ \A k \in 1..Len(db.deviceinfos) :
                                 db.deviceinfos[k].userId # t.user._id) =>
                  \A i \in 1..Len(run.result) :
                      (/\ run.result[i].userId = t.user._id
                       /\ run.result[i].friendId = t.friends._id) =>
                          run.result[i].token = Null
        /\ \A d \in 1..Len(calls) :
              Len(calls[d].messages) <= Cardinality(PairsOf(run.result))

\* the error of line 56
DobError == "Date of birth cannot be in the future"

\* C17: a save whose date of birth is strictly later than the time of the
\* check is rejected with 'Date of birth cannot be in the future', one whose
\* date of birth is earlier than or equal to that time is not; no persisted
\* user document has a date of birth later than the time it was saved.
C17_FutureDobRejected ==
    /\ \A i \in 1..Len(saves) :
          LET s == saves[i]
          IN  /\ s.dobCheckedAt # <<>> =>
                    (s.doc.dob > s.dobCheckedAt[1]
                        <=> (s.pc = "rejected" /\ s.error = DobError))
              /\ s.error = DobError => s.dobCheckedAt # <<>>
              /\ s.modified.dob /\ s.pc \in {"awaitHash", "saved"} => s.dobCheckedAt # <<>>
              /\ s.pc = "saved" => s.doc.dob <= s.savedAt[1]
    /\ \A k \in 1..Len(db.users) : db.users[k].dob <= NewDate

\* C17 witness: one save was rejected for a date of birth a minute ahead of
\* the clock, another with the date of birth equal to the time of the check
\* was written
C17_Witness ==
    \E i, j \in 1..Len(saves) :
        /\ saves[i].pc = "rejected"
        /\ saves[i].error = DobError
        /\ saves[i].doc.dob = saves[i].dobCheckedAt[1] + 1
        /\ saves[j].pc = "saved"
        /\ saves[j].dobCheckedAt = <<saves[j].doc.dob>>
        /\ \E k \in 1..Len(db.users) : db.users[k]._id = saves[j].doc._id

\* C20: a user profile exists only for a user whose document was written,
\* or whose save is still under way: a rejected save of a new user leaves
\* no profile behind.
C20_NoProfileWithoutUser ==
    \A p \in 1..Len(db.userprofiles) :
        \/ UsersWithId(db.userprofiles[p].user) # <<>>
        \/ Saving(db.userprofiles[p].user)
====
